---- MODULE Spec2Model ----
(***************************************************************************)
(* noScribe: alignment of recognized-speech segments with diarization      *)
(* segments into a speaker-attributed transcript (src/transcribe.py).      *)
(*                                                                         *)
(* The module models one call of transcribe(cfg, ...): the construction of *)
(* the TranscriptSaver, the loading of the model, the segment loop with    *)
(* its cancellation poll, the per-segment assembly of the document, the    *)
(* TranscriptSaver.save / _open fallback logic on a two-file file system,  *)
(* and the run's exception handler.                                        *)
(*                                                                         *)
(* Times are integer milliseconds (segment times) and integer seconds      *)
(* (the wall clock used by the auto-save test).                            *)
(***************************************************************************)
EXTENDS Integers, Sequences, FiniteSets, TLC

\* ------------------------------------------------------------------ bounds
\* Largest number of segments the lazy segment stream yields in one run.
MaxSegs == 3

\* ------------------------------------------------------- program constants
\* Seconds after the last save before the loop saves again (auto save).
AutoSaveInterval == 20

\* --------------------------------------------------------------- variables
VARIABLES
    cfg,              \* the task configuration handed to transcribe()
    primary_locked,   \* environment: open(self.file_path, 'w') raises OSError
    diarization_file, \* environment: content of cfg.diarization_file, or Unreadable
    cancel,           \* App.cancel, the flag user_cancel_callback() returns
    pc,               \* position of transcribe()
    outcome,          \* how the call of transcribe() ended
    exc,              \* the exception e that ended the try block, or NoExc
    d,                \* the document body: sequence of paragraphs (sequences of runs)
    p,                \* index in d of the current paragraph p
    speaker,          \* speaker
    prev_speaker,     \* prev_speaker
    last_segment_end, \* last_segment_end
    last_timestamp_ms,\* last_timestamp_ms
    first_segment,    \* first_segment
    segment,          \* the segment the for loop has just fetched
    nsegs,            \* number of segments fetched so far
    now,              \* datetime.datetime.now(), in seconds
    last_save,        \* saver.last_save, in seconds
    fs,               \* file system: content of the primary and the fallback path
    sv,               \* the save in progress: kind, target file, rendered text
    log,              \* calls of log_callback / logn_callback, in order
    hist,             \* history of the run (polls, saves, appends), for the properties
    fn                \* a call of one of the pure functions: its inputs and its result

vars == << cfg, primary_locked, diarization_file, cancel, pc, outcome, exc, d, p,
           speaker, prev_speaker, last_segment_end, last_timestamp_ms,
           first_segment, segment, nsegs, now, last_save, fs, sv, log, hist, fn >>

asmVars == << d, p, speaker, prev_speaker, last_segment_end, last_timestamp_ms,
              first_segment >>

envVars == << cfg, primary_locked, diarization_file, fn >>

\* ------------------------------------------------------------ pure helpers
Min(a, b) == IF a < b THEN a ELSE b

Max(a, b) == IF a > b THEN a ELSE b

\* Python's round(n / q) for integers n >= 0, q > 0: round half to even.
Round(n, q) ==
    LET lo == n \div q
        r  == n % q
    IN  IF 2 * r < q THEN lo
        ELSE IF 2 * r > q THEN lo + 1
        ELSE IF lo % 2 = 0 THEN lo ELSE lo + 1

\* ms_to_str(milliseconds): 'hh:mm:ss', the milliseconds are dropped.
ms_to_str(ms) ==
    LET seconds == ms \div 1000
        minutes == seconds \div 60
        hours   == minutes \div 60
    IN  << hours, minutes % 60, seconds % 60 >>

\* The speaker labels pyannote writes, and the empty label.
Labels == { "SPEAKER_00", "SPEAKER_01", "SPEAKER_02", "SPEAKER_03" }

NoSpeaker == ""

\* f'S{segment["label"][8:]}': "SPEAKER_01" > "S01"
ShortLabel(label) ==
    CASE label = "SPEAKER_00" -> "S00"
      [] label = "SPEAKER_01" -> "S01"
      [] label = "SPEAKER_02" -> "S02"
      [] label = "SPEAKER_03" -> "S03"

\* f"//{spkr}"
MarkOverlap(spkr) ==
    CASE spkr = "S00" -> "//S00"
      [] spkr = "S01" -> "//S01"
      [] spkr = "S02" -> "//S02"
      [] spkr = "S03" -> "//S03"
      [] spkr = ""    -> "//"

\* The test speaker[:2] == '//' failing for every speaker.
IsMarkedNever(spkr) == FALSE

\* speaker[:2] == '//'
IsMarked(spkr) == spkr \in { "//S00", "//S01", "//S02", "//S03", "//" }

\* The values find_speaker returns and the variable speaker takes.
SpeakerNames ==
    { NoSpeaker } \cup { ShortLabel(l) : l \in Labels }
                 \cup { MarkOverlap(ShortLabel(l)) : l \in Labels }

\* The result of overlap_len: None, or the fraction num / den with den > 0.
None == [ none |-> TRUE, num |-> 0, den |-> 1 ]

Frac(n, q) == [ none |-> FALSE, num |-> n, den |-> q ]

\* a >= b and a > b for two fractions with positive denominators
FracGe(a, b) == a.num * b.den >= b.num * a.den

FracGt(a, b) == a.num * b.den > b.num * a.den

\* overlap_threshold = 0.8
overlap_threshold == Frac(4, 5)

\* overlap_len with the two outcomes without overlap exchanged: None for a
\* transcript segment after the speaker segment, 0.0 for one before it.
overlap_lenSwapped(ss_start, ss_end, ts_start, ts_end) ==
    IF ts_end < ss_start THEN Frac(0, 1)
    ELSE IF ts_start > ss_end THEN None
    ELSE IF ts_end - ts_start <= 0 THEN None
    ELSE Frac(Min(ss_end, ts_end) - Max(ss_start, ts_start) + 1, ts_end - ts_start)

\* overlap_len without the millisecond added to the length of the overlap.
overlap_lenExclusive(ss_start, ss_end, ts_start, ts_end) ==
    IF ts_end < ss_start THEN None
    ELSE IF ts_start > ss_end THEN Frac(0, 1)
    ELSE IF ts_end - ts_start <= 0 THEN None
    ELSE Frac(Min(ss_end, ts_end) - Max(ss_start, ts_start), ts_end - ts_start)

\* overlap_len with the test of the length of the transcript segment made first.
overlap_lenLengthFirst(ss_start, ss_end, ts_start, ts_end) ==
    IF ts_end - ts_start <= 0 THEN None
    ELSE IF ts_end < ss_start THEN None
    ELSE IF ts_start > ss_end THEN Frac(0, 1)
    ELSE Frac(Min(ss_end, ts_end) - Max(ss_start, ts_start) + 1, ts_end - ts_start)

\* overlap_len with the test for a transcript segment after the speaker
\* segment made first.
overlap_lenAfterFirst(ss_start, ss_end, ts_start, ts_end) ==
    IF ts_start > ss_end THEN Frac(0, 1)
    ELSE IF ts_end < ss_start THEN None
    ELSE IF ts_end - ts_start <= 0 THEN None
    ELSE Frac(Min(ss_end, ts_end) - Max(ss_start, ts_start) + 1, ts_end - ts_start)

\* overlap_len with None for every transcript segment without overlap.
overlap_lenNoneWithoutOverlap(ss_start, ss_end, ts_start, ts_end) ==
    IF ts_end < ss_start THEN None
    ELSE IF ts_start > ss_end THEN None
    ELSE IF ts_end - ts_start <= 0 THEN None
    ELSE Frac(Min(ss_end, ts_end) - Max(ss_start, ts_start) + 1, ts_end - ts_start)

overlap_len(ss_start, ss_end, ts_start, ts_end) ==
    IF ts_end < ss_start THEN None
    ELSE IF ts_start > ss_end THEN Frac(0, 1)
    ELSE IF ts_end - ts_start <= 0 THEN None
    ELSE Frac(Min(ss_end, ts_end) - Max(ss_start, ts_start) + 1, ts_end - ts_start)

\* The locals of find_speaker before the scan.
FindInit == [ spkr |-> NoSpeaker, overlap_found |-> Frac(0, 1), segment_len |-> 0,
              is_overlapping |-> FALSE ]

\* FindStep taking a well-overlapping segment that is as long as the one found.
FindStepLe(st, seg, t) ==
    LET current_segment_len  == seg.end - seg.start
        current_segment_spkr == ShortLabel(seg.label)
    IN  IF FracGe(st.overlap_found, overlap_threshold)
        THEN IF FracGe(t, overlap_threshold) /\ current_segment_len <= st.segment_len
             THEN [ spkr |-> current_segment_spkr, overlap_found |-> t,
                    segment_len |-> current_segment_len, is_overlapping |-> TRUE ]
             ELSE st
        ELSE IF FracGt(t, st.overlap_found)
             THEN [ st EXCEPT !.spkr = current_segment_spkr, !.overlap_found = t,
                              !.segment_len = current_segment_len ]
             ELSE st

\* FindStep taking a segment whose overlap equals the overlap found so far.
FindStepGe(st, seg, t) ==
    LET current_segment_len  == seg.end - seg.start
        current_segment_spkr == ShortLabel(seg.label)
    IN  IF FracGe(st.overlap_found, overlap_threshold)
        THEN IF FracGe(t, overlap_threshold) /\ current_segment_len < st.segment_len
             THEN [ spkr |-> current_segment_spkr, overlap_found |-> t,
                    segment_len |-> current_segment_len, is_overlapping |-> TRUE ]
             ELSE st
        ELSE IF FracGe(t, st.overlap_found)
             THEN [ st EXCEPT !.spkr = current_segment_spkr, !.overlap_found = t,
                              !.segment_len = current_segment_len ]
             ELSE st

\* One pass of the body of find_speaker's loop, for a segment with overlap t.
FindStep(st, seg, t) ==
    LET current_segment_len  == seg.end - seg.start
        current_segment_spkr == ShortLabel(seg.label)
    IN  IF FracGe(st.overlap_found, overlap_threshold)
        THEN IF FracGe(t, overlap_threshold) /\ current_segment_len < st.segment_len
             THEN [ spkr |-> current_segment_spkr, overlap_found |-> t,
                    segment_len |-> current_segment_len, is_overlapping |-> TRUE ]
             ELSE st
        ELSE IF FracGt(t, st.overlap_found)
             THEN [ st EXCEPT !.spkr = current_segment_spkr, !.overlap_found = t,
                              !.segment_len = current_segment_len ]
             ELSE st

\* The loop of find_speaker from segment i on: it breaks on the first None.
RECURSIVE FindScan(_, _, _, _, _)
FindScan(diarization, i, st, transcript_start, transcript_end) ==
    IF i > Len(diarization) THEN st
    ELSE LET seg == diarization[i]
             t   == overlap_len(seg.start, seg.end, transcript_start, transcript_end)
         IN  IF t.none THEN st
             ELSE FindScan(diarization, i + 1, FindStep(st, seg, t),
                           transcript_start, transcript_end)

\* find_speaker marking the speaker whatever overlapping_speech_selected is.
find_speakerSwitchIgnored(diarization, transcript_start, transcript_end, overlapping_speech_selected) ==
    LET st == FindScan(diarization, 1, FindInit, transcript_start, transcript_end)
    IN  IF st.is_overlapping THEN MarkOverlap(st.spkr) ELSE st.spkr

find_speaker(diarization, transcript_start, transcript_end, overlapping_speech_selected) ==
    LET st == FindScan(diarization, 1, FindInit, transcript_start, transcript_end)
    IN  IF overlapping_speech_selected /\ st.is_overlapping
        THEN MarkOverlap(st.spkr)
        ELSE st.spkr

\* ---------------------------------------------------------------- document
\* A run of a paragraph: an anchor <a name="ts_<a>_<b>_<spk>">html</a> (kind
\* "seg" for a speech segment, "pause" for a pause marker), or the text of the
\* title and notes paragraphs.  close: '//' has been appended to the element.
Run(kind, a, b, spk, html) ==
    [ kind |-> kind, a |-> a, b |-> b, spk |-> spk, html |-> html, close |-> FALSE ]

\* The inline content seg_html of a segment's anchor: what is put before the
\* segment's text (pre), the timestamp shown (or NoTs), the index of the segment
\* whose text follows, and whether leading white space was stripped.
NoTs == << >>

SegHtml(pre, ts, body, lstrip) ==
    [ pre |-> pre, ts |-> ts, body |-> body, lstrip |-> lstrip ]

\* HeaderDoc with the notes paragraph put before the title.
HeaderDocNotesFirst ==
    << << Run("notes", 0, 0, NoSpeaker, SegHtml("doc_header", NoTs, 0, FALSE)) >>,
       << Run("title", 0, 0, NoSpeaker, SegHtml("stem", NoTs, 0, FALSE)) >>,
       << >> >>

\* The document after the set-up of transcribe(): the title paragraph, the notes
\* paragraph and the empty paragraph p that receives the first segments.
HeaderDoc ==
    << << Run("title", 0, 0, NoSpeaker, SegHtml("stem", NoTs, 0, FALSE)) >>,
       << Run("notes", 0, 0, NoSpeaker, SegHtml("doc_header", NoTs, 0, FALSE)) >>,
       << >> >>

IsAnchor(r) == r.kind \in { "seg", "pause" }

\* AppendChild that puts the element before the children of the paragraph.
AppendChildFirst(doc, idx, r) == [ doc EXCEPT ![idx] = << r >> \o @ ]

\* p.appendChild(a)
AppendChild(doc, idx, r) == [ doc EXCEPT ![idx] = Append(@, r) ]

\* AppendClose that writes no close marker.
AppendCloseNothing(doc, idx) == doc

\* last_elem = p.lastElementChild; last_elem.appendText('//') or p.appendText('//')
AppendClose(doc, idx) ==
    IF Len(doc[idx]) > 0
    THEN [ doc EXCEPT ![idx][Len(doc[idx])].close = TRUE ]
    ELSE AppendChild(doc, idx, Run("text", 0, 0, NoSpeaker, SegHtml("//", NoTs, 0, FALSE)))

\* All runs of the document, in document order (getElementsByTagName walks so).
RECURSIVE Flatten(_)
Flatten(doc) ==
    IF doc = << >> THEN << >> ELSE Head(doc) \o Flatten(Tail(doc))

Anchors(doc) == SelectSeq(Flatten(doc), IsAnchor)

\* ---------------------------------------------------------------- renderers
\* ms_to_webvtt with the minutes not reduced by the hours.
ms_to_webvttWholeMinutes(ms) ==
    << ms \div 3600000, ms \div 60000, (ms % 60000) \div 1000, ms % 1000 >>

\* ms_to_webvtt(milliseconds): HH:MM:SS.mmm
ms_to_webvtt(ms) ==
    << ms \div 3600000, (ms % 3600000) \div 60000, (ms % 60000) \div 1000, ms % 1000 >>

\* html_node_to_text over the body: the text of each paragraph, names dropped.
html_to_text(doc) ==
    [ i \in 1 .. Len(doc) |->
        [ j \in 1 .. Len(doc[i]) |-> [ html |-> doc[i][j].html, close |-> doc[i][j].close ] ] ]

\* The name f'ts_{a}_{b}_{speaker}' of an anchor, as the sequence of its parts
\* between the underscores; the speaker names hold no underscore, and the
\* decimal digits of a and b stand for the same integers when int() reads them.
AnchorName(a, b, spk) == << "ts", a, b, spk >>

\* name.split('_', 4): at most four cuts, what follows the fourth cut is one part.
Split4(name) ==
    IF Len(name) <= 5 THEN name
    ELSE SubSeq(name, 1, 4) \o << SubSeq(name, 5, Len(name)) >>

\* html_to_webvtt: the title and the notes from the first two paragraphs, then
\* one cue per anchor.
html_to_webvtt(doc) ==
    LET as == Anchors(doc)
        name_elems(r) == Split4(AnchorName(r.a, r.b, r.spk))
    IN  << << doc[1] >>, << doc[2] >>,
           [ i \in 1 .. Len(as) |->
               [ n |-> i, start |-> ms_to_webvtt(name_elems(as[i])[2]),
                 end |-> ms_to_webvtt(name_elems(as[i])[3]),
                 v |-> name_elems(as[i])[4], html |-> as[i].html, close |-> as[i].close ] ] >>

\* TranscriptSaver._parse: the text that save() writes.
Parse(fmt, doc) ==
    [ fmt  |-> fmt,
      body |-> CASE fmt = "html" -> doc
                 [] fmt = "txt"  -> html_to_text(doc)
                 [] fmt = "vtt"  -> html_to_webvtt(doc) ]

NoText == [ fmt |-> "none", body |-> << >> ]

\* -------------------------------------------------------------- file system
\* A path holds nothing (absent), a file this run did not write (foreign), an
\* opened and not yet written file (truncated) or a complete rendering.
File(state, text) == [ state |-> state, text |-> text ]

Absent == File("absent", NoText)

Foreign == File("foreign", NoText)

Truncated == File("truncated", NoText)

\* ---------------------------------------------------------------------- log
\* A call logn_callback(msg, sev, link) or log_callback(msg); blank lines are
\* left out.
Entry(msg, sev, link) == [ msg |-> msg, sev |-> sev, link |-> link ]

\* The except clause of transcribe(): what it logs for the exception e.
HandlerLog(e) ==
    << Entry("err_transcription", "error", ""), Entry(e, "error", "") >>

NoExc == "none"

\* The save in progress: the place that called it (kind), the file _open() has
\* opened (target), the rendered text, the I/O failure of the primary path
\* (io: "none", "open" or "write"), whether the fallback path was absent when
\* the primary path failed, and the files as they were when save() was called.
Save(kind, files) ==
    [ kind |-> kind, target |-> "none", text |-> NoText, io |-> "none",
      fb_absent |-> FALSE, fs0 |-> files ]

NoSave == Save("none", [ primary |-> Absent, fallback |-> Absent ])

NoSegment == [ start |-> 0, end |-> 0, text |-> 0 ]

\* ---------------------------------------------------------------- assembler
\* PauseStr with the gap cut to whole seconds instead of rounded.
PauseStrTruncated(gap_ms, first) ==
    LET pause_len == gap_ms \div 1000
    IN  IF pause_len >= 60
        THEN [ form |-> "pause_minutes", n |-> Round(pause_len, 60), lstrip |-> first ]
        ELSE IF pause_len >= 10
        THEN [ form |-> "pause_seconds", n |-> pause_len, lstrip |-> first ]
        ELSE [ form |-> "pause_marker", n |-> pause_len, lstrip |-> first ]

\* The pause marker text pause_str for a gap of gap_ms milliseconds.
PauseStr(gap_ms, first) ==
    LET pause_len == Round(gap_ms, 1000)
    IN  IF pause_len >= 60
        THEN [ form |-> "pause_minutes", n |-> Round(pause_len, 60), lstrip |-> first ]
        ELSE IF pause_len >= 10
        THEN [ form |-> "pause_seconds", n |-> pause_len, lstrip |-> first ]
        ELSE [ form |-> "pause_marker", n |-> pause_len, lstrip |-> first ]

\* (cfg.pause > 0) and (start - last_segment_end >= cfg.pause * 1000)
PauseDetected(c, start, lse) == c.pause > 0 /\ start - lse >= c.pause * 1000

\* The assembler state as one record, for the per-segment step.
AsmState ==
    [ d |-> d, p |-> p, speaker |-> speaker, prev_speaker |-> prev_speaker,
      last_segment_end |-> last_segment_end, last_timestamp_ms |-> last_timestamp_ms,
      first_segment |-> first_segment, text |-> << >> ]

\* Pause detection of one segment: the pause anchor is appended to the current
\* paragraph and last_segment_end is set.
PauseStep(c, st, seg) ==
    LET marked == PauseDetected(c, seg.start, st.last_segment_end)
        a == Run("pause", c.audio_start + st.last_segment_end, c.audio_start + seg.start,
                 st.speaker, PauseStr(seg.start - st.last_segment_end, st.first_segment))
    IN  [ st EXCEPT !.d = IF marked THEN AppendChild(st.d, st.p, a) ELSE @,
                    !.text = IF marked THEN << "pause_str" >> ELSE << >>,
                    !.last_segment_end = seg.end ]

\* TimestampDue that holds as soon as the interval has passed.
TimestampDueAtInterval(c, st, seg) == seg.start - st.last_timestamp_ms >= c.timestamp_interval

\* The timestamp test of a segment that continues the paragraph.
TimestampDue(c, st, seg) == seg.start - st.last_timestamp_ms > c.timestamp_interval

\* SpeakerStep without the branch for the return to the previous speaker.
SpeakerStepNoReturn(c, st, seg, new_speaker) ==
    LET ts == ms_to_str(c.audio_start + seg.start)
    IN  IF st.speaker # new_speaker /\ new_speaker # NoSpeaker
        THEN IF IsMarked(new_speaker)
             THEN [ st EXCEPT !.prev_speaker = st.speaker, !.speaker = new_speaker ]
                  @@ [ html |-> SegHtml("overlap_speaker", NoTs, seg.text, FALSE) ]
             ELSE LET closed == IF IsMarked(st.speaker)
                                THEN AppendClose(st.d, st.p) ELSE st.d
                  IN  [ st EXCEPT !.d = Append(closed, << >>),
                                  !.p = Len(closed) + 1,
                                  !.speaker = new_speaker,
                                  !.text = IF IsMarked(st.speaker)
                                           THEN Append(@, "//") ELSE @,
                                  !.last_timestamp_ms =
                                      IF c.timestamps THEN seg.start ELSE @ ]
                      @@ [ html |->
                             IF c.timestamps
                             THEN SegHtml("speaker", ts, seg.text, FALSE)
                             ELSE IF c.file_ext # "vtt"
                             THEN SegHtml("speaker", NoTs, seg.text, FALSE)
                             ELSE SegHtml("", NoTs, seg.text, TRUE) ]
        ELSE IF c.timestamps /\ TimestampDue(c, st, seg)
             THEN [ st EXCEPT !.last_timestamp_ms = seg.start ]
                  @@ [ html |-> SegHtml("", ts, seg.text, FALSE) ]
             ELSE st @@ [ html |-> SegHtml("", NoTs, seg.text, FALSE) ]

\* SpeakerStep that takes an empty resolution for a speaker change.
SpeakerStepEmptyIsChange(c, st, seg, new_speaker) ==
    LET ts == ms_to_str(c.audio_start + seg.start)
    IN  IF st.speaker # new_speaker
        THEN IF IsMarked(new_speaker)
             THEN [ st EXCEPT !.prev_speaker = st.speaker, !.speaker = new_speaker ]
                  @@ [ html |-> SegHtml("overlap_speaker", NoTs, seg.text, FALSE) ]
             ELSE IF IsMarked(st.speaker) /\ new_speaker = st.prev_speaker
             THEN [ st EXCEPT !.speaker = new_speaker ]
                  @@ [ html |-> SegHtml("//", NoTs, seg.text, FALSE) ]
             ELSE LET closed == IF IsMarked(st.speaker)
                                THEN AppendClose(st.d, st.p) ELSE st.d
                  IN  [ st EXCEPT !.d = Append(closed, << >>),
                                  !.p = Len(closed) + 1,
                                  !.speaker = new_speaker,
                                  !.text = IF IsMarked(st.speaker)
                                           THEN Append(@, "//") ELSE @,
                                  !.last_timestamp_ms =
                                      IF c.timestamps THEN seg.start ELSE @ ]
                      @@ [ html |->
                             IF c.timestamps
                             THEN SegHtml("speaker", ts, seg.text, FALSE)
                             ELSE IF c.file_ext # "vtt"
                             THEN SegHtml("speaker", NoTs, seg.text, FALSE)
                             ELSE SegHtml("", NoTs, seg.text, TRUE) ]
        ELSE IF c.timestamps /\ TimestampDue(c, st, seg)
             THEN [ st EXCEPT !.last_timestamp_ms = seg.start ]
                  @@ [ html |-> SegHtml("", ts, seg.text, FALSE) ]
             ELSE st @@ [ html |-> SegHtml("", NoTs, seg.text, FALSE) ]

\* Speaker resolution and paragraph transition of one segment (speaker
\* detection on); the result carries the segment's seg_html in field html.
SpeakerStep(c, st, seg, new_speaker) ==
    LET ts == ms_to_str(c.audio_start + seg.start)
    IN  IF st.speaker # new_speaker /\ new_speaker # NoSpeaker
        THEN IF IsMarked(new_speaker)
             THEN [ st EXCEPT !.prev_speaker = st.speaker, !.speaker = new_speaker ]
                  @@ [ html |-> SegHtml("overlap_speaker", NoTs, seg.text, FALSE) ]
             ELSE IF IsMarked(st.speaker) /\ new_speaker = st.prev_speaker
             THEN [ st EXCEPT !.speaker = new_speaker ]
                  @@ [ html |-> SegHtml("//", NoTs, seg.text, FALSE) ]
             ELSE LET closed == IF IsMarked(st.speaker)
                                THEN AppendClose(st.d, st.p) ELSE st.d
                  IN  [ st EXCEPT !.d = Append(closed, << >>),
                                  !.p = Len(closed) + 1,
                                  !.speaker = new_speaker,
                                  !.text = IF IsMarked(st.speaker)
                                           THEN Append(@, "//") ELSE @,
                                  !.last_timestamp_ms =
                                      IF c.timestamps THEN seg.start ELSE @ ]
                      @@ [ html |->
                             IF c.timestamps
                             THEN SegHtml("speaker", ts, seg.text, FALSE)
                             ELSE IF c.file_ext # "vtt"
                             THEN SegHtml("speaker", NoTs, seg.text, FALSE)
                             ELSE SegHtml("", NoTs, seg.text, TRUE) ]
        ELSE IF c.timestamps /\ TimestampDue(c, st, seg)
             THEN [ st EXCEPT !.last_timestamp_ms = seg.start ]
                  @@ [ html |-> SegHtml("", ts, seg.text, FALSE) ]
             ELSE st @@ [ html |-> SegHtml("", NoTs, seg.text, FALSE) ]

\* The same with speaker detection off.
PlainStep(c, st, seg) ==
    LET ts == ms_to_str(c.audio_start + seg.start)
    IN  IF c.timestamps /\ (st.first_segment \/ TimestampDue(c, st, seg))
        THEN [ st EXCEPT !.last_timestamp_ms = seg.start ]
             @@ [ html |-> SegHtml("", ts, seg.text, st.first_segment) ]
        ELSE st @@ [ html |-> SegHtml("", NoTs, seg.text, st.first_segment) ]

\* AnchorStep naming the bookmark by the times of the segment in the audio
\* handed to whisper, the part skipped at the beginning not added.
AnchorStepSegmentTimes(c, st, seg) ==
    LET a == Run("seg", seg.start, seg.end, st.speaker, st.html)
    IN  [ st EXCEPT !.d = AppendChild(st.d, st.p, a), !.first_segment = FALSE,
                    !.text = Append(@, "seg_text") ]

\* The bookmark of the segment is appended to the current paragraph.
AnchorStep(c, st, seg) ==
    LET a == Run("seg", c.audio_start + seg.start, c.audio_start + seg.end,
                 st.speaker, st.html)
    IN  [ st EXCEPT !.d = AppendChild(st.d, st.p, a), !.first_segment = FALSE,
                    !.text = Append(@, "seg_text") ]

\* SegmentStep with the pause check after the speaker resolution.
SegmentStepPauseLast(c, st, seg, diarization) ==
    LET turned == IF c.speaker_detection
                  THEN SpeakerStep(c, [ st EXCEPT !.text = << >> ], seg,
                           find_speaker(diarization, seg.start, seg.end,
                                        c.overlapping_speech_selected))
                  ELSE PlainStep(c, [ st EXCEPT !.text = << >> ], seg)
        paused == PauseStep(c, turned, seg)
    IN  AnchorStep(c, paused, seg)

\* The body of the segment loop from the pause check to first_segment = False,
\* for a readable diarization list (or speaker detection off).
SegmentStep(c, st, seg, diarization) ==
    LET paused == PauseStep(c, st, seg)
        turned == IF c.speaker_detection
                  THEN SpeakerStep(c, paused, seg,
                           find_speaker(diarization, seg.start, seg.end,
                                        c.overlapping_speech_selected))
                  ELSE PlainStep(c, paused, seg)
    IN  AnchorStep(c, turned, seg)

\* ------------------------------------------------------------ configuration
FileExts == { "html", "txt", "vtt", "docx" }

\* _validate_format: self.fmt in ['html', 'txt', 'vtt']
ValidFormat(fmt) == fmt \in { "html", "txt", "vtt" }

\* A diarization file with an overlapping pair of speakers and a third speaker.
DiarOverlap ==
    << [ start |-> 0,    end |-> 3000, label |-> "SPEAKER_00" ],
       [ start |-> 900,  end |-> 2100, label |-> "SPEAKER_01" ],
       [ start |-> 3000, end |-> 5000, label |-> "SPEAKER_02" ] >>

Unreadable == << [ start |-> -1, end |-> -1, label |-> "unreadable" ] >>

DiarFiles == { DiarOverlap, Unreadable }

\* Gap before and length of a segment of the stream, in milliseconds.
Gaps == { 0, 1000 }

Lens == { 1000 }

\* Seconds the loop waits for the next segment of the lazy stream.
Delays == { 10, 11 }

\* The task configurations of the run-level specification.
RunConfigs ==
    [ auto_save : BOOLEAN, file_ext : FileExts, speaker_detection : BOOLEAN,
      overlapping_speech_selected : { TRUE }, pause : { 1 }, timestamps : { FALSE },
      timestamp_interval : { 60000 }, audio_start : { 0 } ]

\* ------------------------------------------------------------------ history
HistInit ==
    [ polls |-> 0,           \* cancellation polls made by the segment loop
      late  |-> 0,           \* segments appended while the flag was already set
      seen  |-> FALSE,       \* a poll of the loop has seen the flag set
      saves |-> << >>,       \* the saves that have ended, in order
      reads |-> { } ]        \* the contents yaml.safe_load returned to the loop

\* No pure function is called on its own: the run of transcribe() is examined.
NoCall == [ op |-> "none", args |-> << >>, done |-> FALSE, result |-> << >> ]

\* --------------------------------------------------------------------- Init
\* The state of a call of transcribe() before its first statement.
Start ==
    /\ cancel = FALSE
    /\ pc = "construct"
    /\ outcome = "running"
    /\ exc = NoExc
    /\ d = << >>
    /\ p = 0
    /\ speaker = NoSpeaker
    /\ prev_speaker = NoSpeaker
    /\ last_segment_end = 0
    /\ last_timestamp_ms = 0
    /\ first_segment = TRUE
    /\ segment = NoSegment
    /\ nsegs = 0
    /\ now = 0
    /\ last_save = 0
    /\ sv = NoSave
    /\ log = << >>
    /\ hist = HistInit

Init ==
    /\ cfg \in RunConfigs
    /\ primary_locked \in BOOLEAN
    /\ diarization_file \in DiarFiles
    /\ fs \in { [ primary |-> IF primary_locked THEN Foreign ELSE Absent, fallback |-> f ] :
                    f \in { Absent, Foreign } }
    /\ fn = NoCall
    /\ Start

\* ------------------------------------------------------------------ actions
\* The assembler variables take the values of the record st.
SetAsm(st) ==
    /\ d' = st.d
    /\ p' = st.p
    /\ speaker' = st.speaker
    /\ prev_speaker' = st.prev_speaker
    /\ last_segment_end' = st.last_segment_end
    /\ last_timestamp_ms' = st.last_timestamp_ms
    /\ first_segment' = st.first_segment

\* log_callback(text) for each text of the sequence
TextLog(texts) == [ i \in 1 .. Len(texts) |-> Entry(texts[i], "", "") ]

\* except Exception as e: the exception e leaves the try block after the calls
\* in pre have been logged; the handler logs it and transcribe() returns.
Handler(e, pre) ==
    /\ pc' = "done"
    /\ outcome' = "error"
    /\ exc' = e
    /\ log' = log \o pre \o HandlerLog(e)

\* saver.save(d) is called: the save starts.
BeginSave(kind) ==
    /\ pc' = "save_open"
    /\ sv' = Save(kind, fs)

\* Construct with a saver whose constructor does not validate the format.
ConstructUnvalidated ==
    /\ pc = "construct"
    /\ log' = Append(log, Entry("loading_whisper", "", ""))
    /\ pc' = "load_model"
    /\ last_save' = now
    /\ d' = HeaderDoc
    /\ p' = 3
    /\ UNCHANGED << outcome, exc >>
    /\ UNCHANGED << envVars, cancel, speaker, prev_speaker, last_segment_end,
                    last_timestamp_ms, first_segment, segment, nsegs, now, fs, sv, hist >>

\* transcribe() up to the construction of the saver and the document header.
\* An invalid format raises outside the try block.
Construct ==
    /\ pc = "construct"
    /\ log' = Append(log, Entry("loading_whisper", "", ""))
    /\ IF ValidFormat(cfg.file_ext)
       THEN /\ pc' = "load_model"
            /\ last_save' = now
            /\ d' = HeaderDoc
            /\ p' = 3
            /\ UNCHANGED << outcome, exc >>
       ELSE /\ pc' = "done"
            /\ outcome' = "raised"
            /\ exc' = "invalid_file_type"
            /\ UNCHANGED << last_save, d, p >>
    /\ UNCHANGED << envVars, cancel, speaker, prev_speaker, last_segment_end,
                    last_timestamp_ms, first_segment, segment, nsegs, now, fs, sv, hist >>

\* WhisperModel(...) and the first cancellation check.
LoadModel ==
    /\ pc = "load_model"
    /\ \E loaded \in BOOLEAN :
         IF ~loaded THEN Handler("model_load_failed", << >>)
         ELSE IF cancel
         THEN Handler("err_user_cancelation", << Entry("model loaded", "", "") >>)
         ELSE /\ pc' = "prepare"
              /\ log' = Append(log, Entry("model loaded", "", ""))
              /\ UNCHANGED << outcome, exc >>
    /\ UNCHANGED << envVars, cancel, asmVars, segment, nsegs, now, last_save, fs, sv, hist >>

\* model.transcribe(...), the second cancellation check and the loop's locals.
Prepare ==
    /\ pc = "prepare"
    /\ \E started \in BOOLEAN :
         IF ~started THEN Handler("transcribe_failed", << >>)
         ELSE IF cancel THEN Handler("err_user_cancelation", << >>)
         ELSE /\ pc' = "fetch"
              /\ log' = Append(log, Entry("start_transcription", "", ""))
              /\ UNCHANGED << outcome, exc >>
    /\ UNCHANGED << envVars, cancel, asmVars, segment, nsegs, now, last_save, fs, sv, hist >>

\* FetchEnd with the final save made only when auto-save is enabled.
FetchEndSaveIfAutoSave ==
    /\ pc = "fetch"
    /\ IF cfg.auto_save
       THEN BeginSave("final") /\ UNCHANGED << outcome, log >>
       ELSE /\ pc' = "done"
            /\ outcome' = "finished"
            /\ log' = log \o << Entry("transcription_finished", "highlight", ""),
                                Entry("transcription_saved", "", ""),
                                Entry("my_transcript_file", "", "primary") >>
            /\ UNCHANGED sv
    /\ UNCHANGED << envVars, cancel, exc, asmVars, segment, nsegs, now,
                    last_save, fs, hist >>

\* for segment in segments: the stream ends and the final save is called.
FetchEnd ==
    /\ pc = "fetch"
    /\ BeginSave("final")
    /\ UNCHANGED << envVars, cancel, outcome, exc, asmVars, segment, nsegs, now,
                    last_save, fs, log, hist >>

\* for segment in segments: the segment source raises.
FetchRaise ==
    /\ pc = "fetch"
    /\ Handler("segment_source_failed", << >>)
    /\ UNCHANGED << envVars, cancel, asmVars, segment, nsegs, now, last_save, fs, sv, hist >>

\* Fetch with the raise of the cancellation branch placed under the auto-save
\* test: without auto-save the loop goes on although the poll saw the flag.
FetchRaiseUnderAutoSave ==
    /\ pc = "fetch"
    /\ nsegs < MaxSegs
    /\ \E gap \in Gaps, len \in Lens, delay \in Delays :
         /\ segment' = [ start |-> last_segment_end + gap,
                         end   |-> last_segment_end + gap + len,
                         text  |-> nsegs + 1 ]
         /\ now' = now + delay
    /\ nsegs' = nsegs + 1
    /\ hist' = [ hist EXCEPT !.polls = @ + 1, !.seen = cancel ]
    /\ IF cancel /\ cfg.auto_save
       THEN BeginSave("cancel") /\ UNCHANGED << outcome, exc, log >>
       ELSE pc' = "process" /\ UNCHANGED << outcome, exc, log, sv >>
    /\ UNCHANGED << envVars, cancel, asmVars, last_save, fs >>

\* for segment in segments: the next segment arrives after some seconds, and
\* the loop polls the cancellation flag.
Fetch ==
    /\ pc = "fetch"
    /\ nsegs < MaxSegs
    /\ \E gap \in Gaps, len \in Lens, delay \in Delays :
         /\ segment' = [ start |-> last_segment_end + gap,
                         end   |-> last_segment_end + gap + len,
                         text  |-> nsegs + 1 ]
         /\ now' = now + delay
    /\ nsegs' = nsegs + 1
    /\ hist' = [ hist EXCEPT !.polls = @ + 1, !.seen = cancel ]
    /\ IF cancel
       THEN IF cfg.auto_save
            THEN BeginSave("cancel") /\ UNCHANGED << outcome, exc, log >>
            ELSE Handler("err_user_cancelation", << >>) /\ UNCHANGED sv
       ELSE pc' = "process" /\ UNCHANGED << outcome, exc, log, sv >>
    /\ UNCHANGED << envVars, cancel, asmVars, last_save, fs >>

\* Process with the periodic save due as soon as the interval has passed.
ProcessSaveAtInterval ==
    /\ pc = "process"
    /\ IF cfg.speaker_detection /\ diarization_file = Unreadable
       THEN LET st == PauseStep(cfg, AsmState, segment)
            IN  /\ SetAsm(st)
                /\ Handler("diarization_load_failed", TextLog(st.text))
                /\ UNCHANGED << sv, hist >>
       ELSE LET st == SegmentStep(cfg, AsmState, segment, diarization_file)
            IN  /\ SetAsm(st)
                /\ log' = log \o TextLog(st.text)
                /\ hist' = [ hist EXCEPT
                              !.late = IF cancel THEN @ + 1 ELSE @,
                              !.reads = IF cfg.speaker_detection
                                        THEN @ \cup { diarization_file } ELSE @ ]
                /\ IF cfg.auto_save /\ now - last_save >= AutoSaveInterval
                   THEN BeginSave("periodic")
                   ELSE pc' = "fetch" /\ UNCHANGED sv
                /\ UNCHANGED << outcome, exc >>
    /\ UNCHANGED << envVars, cancel, segment, nsegs, now, last_save, fs >>

\* The body of the loop for the fetched segment, up to the auto-save test.
Process ==
    /\ pc = "process"
    /\ IF cfg.speaker_detection /\ diarization_file = Unreadable
       THEN LET st == PauseStep(cfg, AsmState, segment)
            IN  /\ SetAsm(st)
                /\ Handler("diarization_load_failed", TextLog(st.text))
                /\ UNCHANGED << sv, hist >>
       ELSE LET st == SegmentStep(cfg, AsmState, segment, diarization_file)
            IN  /\ SetAsm(st)
                /\ log' = log \o TextLog(st.text)
                /\ hist' = [ hist EXCEPT
                              !.late = IF cancel THEN @ + 1 ELSE @,
                              !.reads = IF cfg.speaker_detection
                                        THEN @ \cup { diarization_file } ELSE @ ]
                /\ IF cfg.auto_save /\ now - last_save > AutoSaveInterval
                   THEN BeginSave("periodic")
                   ELSE pc' = "fetch" /\ UNCHANGED sv
                /\ UNCHANGED << outcome, exc >>
    /\ UNCHANGED << envVars, cancel, segment, nsegs, now, last_save, fs >>

\* ------------------------------------------------------------------- saving
\* fallback_path.exists()
FallbackExists == fs.fallback.state # "absent"

\* self.logn_callback(f'Rescue saving to {fallback_path}', 'error', f'file://{fallback_path}')
RescueEntry == Entry("Rescue saving to", "error", "fallback")

\* The record of a save that has ended: the save as it stood, how it ended
\* ("ok" or the exception raised) and the files as it left them.
SaveRec(save, result, files) ==
    [ kind |-> save.kind, target |-> save.target, text |-> save.text, io |-> save.io,
      fb_absent |-> save.fb_absent, fs0 |-> save.fs0, result |-> result, fs1 |-> files ]

\* save() raises e: the exception reaches the handler of transcribe().
SaveRaise(save, e, pre, files) ==
    /\ Handler(e, pre)
    /\ hist' = [ hist EXCEPT !.saves = Append(@, SaveRec(save, e, files)) ]
    /\ sv' = NoSave

\* save(): the document is rendered and _open() opens the primary path for
\* writing, which truncates it; when that open fails, the except clause of
\* _open() selects the fallback path.
SaveOpen ==
    /\ pc = "save_open"
    /\ LET text == Parse(cfg.file_ext, d)
       IN  IF ~primary_locked
           THEN /\ fs' = [ fs EXCEPT !.primary = Truncated ]
                /\ sv' = [ sv EXCEPT !.target = "primary", !.text = text ]
                /\ pc' = "save_write"
                /\ UNCHANGED << outcome, exc, log, hist >>
           ELSE IF FallbackExists
           THEN /\ SaveRaise([ sv EXCEPT !.text = text, !.io = "open" ],
                             "rescue_saving_failed", << >>, fs)
                /\ UNCHANGED fs
           ELSE /\ fs' = [ fs EXCEPT !.fallback = Truncated ]
                /\ sv' = [ sv EXCEPT !.target = "fallback", !.text = text,
                                     !.io = "open", !.fb_absent = TRUE ]
                /\ pc' = "save_write"
                /\ log' = Append(log, RescueEntry)
                /\ UNCHANGED << outcome, exc, hist >>
    /\ UNCHANGED << envVars, cancel, asmVars, segment, nsegs, now, last_save >>

\* SaveParseRaise with the primary file opened before the text is rendered.
SaveParseRaiseAfterOpen ==
    /\ pc = "save_open"
    /\ fs' = [ fs EXCEPT !.primary = Truncated ]
    /\ SaveRaise([ sv EXCEPT !.io = "parse" ], "parse_failed", << >>,
                 [ fs EXCEPT !.primary = Truncated ])
    /\ UNCHANGED << envVars, cancel, asmVars, segment, nsegs, now, last_save >>

\* save(): self._parse(d) raises; _open() has not been entered, no file has
\* been opened, and the assignment of last_save is not reached.
SaveParseRaise ==
    /\ pc = "save_open"
    /\ SaveRaise([ sv EXCEPT !.io = "parse" ], "parse_failed", << >>, fs)
    /\ UNCHANGED fs
    /\ UNCHANGED << envVars, cancel, asmVars, segment, nsegs, now, last_save >>

\* What follows a completed save, by the place that called it.
AfterSave ==
    CASE sv.kind = "periodic" ->
           /\ pc' = "fetch"
           /\ UNCHANGED << outcome, exc, log >>
      [] sv.kind = "cancel" ->
           Handler("err_user_cancelation",
                   << Entry("transcription_saved", "", ""),
                      Entry("my_transcript_file", "", "primary") >>)
      [] sv.kind = "final" ->
           /\ pc' = "done"
           /\ outcome' = "finished"
           /\ log' = log \o << Entry("transcription_finished", "highlight", ""),
                               Entry("transcription_saved", "", ""),
                               Entry("my_transcript_file", "", "primary") >>
           /\ UNCHANGED exc

\* save(): file.write(text), file.flush() and the close succeed; last_save is set.
SaveWrite ==
    /\ pc = "save_write"
    /\ fs' = [ fs EXCEPT ![sv.target] = File("complete", sv.text) ]
    /\ last_save' = now
    /\ hist' = [ hist EXCEPT !.saves =
                   Append(@, SaveRec(sv, "ok",
                                     [ fs EXCEPT ![sv.target] = File("complete", sv.text) ])) ]
    /\ AfterSave
    /\ sv' = NoSave
    /\ UNCHANGED << envVars, cancel, asmVars, segment, nsegs, now >>

\* save(): file.write(text) or file.flush() raises OSError.  On the primary
\* file the error is thrown into _open() at its yield, whose except clause
\* runs again: it raises, or it opens the fallback file and yields a second
\* time, which contextmanager answers with RuntimeError.
SaveWriteFail ==
    /\ pc = "save_write"
    /\ IF sv.target = "fallback"
       THEN SaveRaise(sv, "OSError", << >>, fs) /\ UNCHANGED fs
       ELSE IF FallbackExists
       THEN /\ SaveRaise([ sv EXCEPT !.io = "write" ], "rescue_saving_failed", << >>, fs)
            /\ UNCHANGED fs
       ELSE /\ fs' = [ fs EXCEPT !.fallback = Truncated ]
            /\ SaveRaise([ sv EXCEPT !.io = "write", !.fb_absent = TRUE ],
                         "generator didn't stop after throw()", << RescueEntry >>,
                         [ fs EXCEPT !.fallback = Truncated ])
    /\ UNCHANGED << envVars, cancel, asmVars, segment, nsegs, now, last_save >>

\* -------------------------------------------------------------- environment
Running == pc \notin { "done", "crashed" }

\* button_stop_event: self.cancel = True
Cancel ==
    /\ Running
    /\ ~cancel
    /\ cancel' = TRUE
    /\ UNCHANGED << envVars, pc, outcome, exc, asmVars, segment, nsegs, now, last_save,
                    fs, sv, log, hist >>

\* The process dies (power loss, kill): nothing runs any more, the files stay.
Crash ==
    /\ Running
    /\ pc' = "crashed"
    /\ outcome' = "crashed"
    /\ UNCHANGED << envVars, cancel, exc, asmVars, segment, nsegs, now, last_save,
                    fs, sv, log, hist >>

Next ==
    \/ Construct
    \/ LoadModel
    \/ Prepare
    \/ Fetch
    \/ FetchEnd
    \/ FetchRaise
    \/ Process
    \/ SaveOpen
    \/ SaveWrite
    \/ SaveWriteFail
    \/ Cancel
    \/ Crash

Spec == Init /\ [][Next]_vars

\* The run of transcribe() with auto-save and a renderer that can raise.
SaveConfigs ==
    [ auto_save : { TRUE }, file_ext : { "html", "vtt" }, speaker_detection : { FALSE },
      overlapping_speech_selected : { TRUE }, pause : { 1 }, timestamps : { FALSE },
      timestamp_interval : { 60000 }, audio_start : { 0 } ]

InitSave == Init /\ cfg \in SaveConfigs

NextSave == Next \/ SaveParseRaise

SpecSave == InitSave /\ [][NextSave]_vars

\* =============================================================== properties
\* Number of rescue notifications (carrying the fallback path) in the log.
RescueCount == Cardinality({ i \in DOMAIN log : log[i] = RescueEntry })

\* The saves that have ended and in which the primary path failed while the
\* fallback path was absent.
FellBack(r) == r.io # "none" /\ r.fb_absent

\* C1: when opening or writing the primary path fails with an I/O error and
\* the fallback path does not exist, the complete rendered document is written
\* to the fallback path, and exactly one notification carrying the fallback
\* path is logged for that save.  (An I/O error on the fallback file itself is
\* outside the claim.)
C1_FallbackWritten ==
    /\ \A i \in DOMAIN hist.saves :
         LET r == hist.saves[i]
         IN  FellBack(r) /\ r.result # "OSError" =>
               /\ r.result = "ok"
               /\ r.fs1.fallback = File("complete", r.text)
    /\ RescueCount = Cardinality({ i \in DOMAIN hist.saves : FellBack(hist.saves[i]) })
                     + (IF FellBack(sv) THEN 1 ELSE 0)

\* C2: when the primary path fails with an I/O error and the fallback path
\* exists, save raises (no second fallback level), the failure is logged as a
\* rescue failure, and the save leaves the content of both files as it was.
C2_PermanentFailure ==
    \A i \in DOMAIN hist.saves :
      LET r == hist.saves[i]
      IN  r.io # "none" /\ ~r.fb_absent =>
            /\ r.result = "rescue_saving_failed"
            /\ \E j \in DOMAIN log : log[j] = Entry("rescue_saving_failed", "error", "")
            /\ r.fs1 = r.fs0

\* C3: in a run whose primary path stays unwritable and whose fallback path was
\* absent at the start, once a save has fallen back to the fallback path every
\* later save succeeds on the fallback path (unless the fallback write itself
\* fails), so no later save aborts the run.
C3_LaterSavesRedirected ==
    primary_locked =>
      \A i, j \in DOMAIN hist.saves :
        LET first == hist.saves[i]
            later == hist.saves[j]
        IN  i < j /\ FellBack(first) /\ first.result = "ok" =>
              /\ later.result \in { "ok", "OSError" }
              /\ later.target = "fallback"

\* The files to which a save of this run has been completed.
SavedFiles == { hist.saves[i].target : i \in { k \in DOMAIN hist.saves :
                                                  hist.saves[k].result = "ok" } }

\* C4: once a save has completed, the saved file holds a complete rendering of
\* the document at every later point of the run, also in the middle of a later
\* save and after a crash there; it is never empty or truncated.
C4_SavedFileComplete ==
    \A f \in SavedFiles : fs[f].state = "complete"

\* Number of speech-segment anchors in the document.
NumSegAnchors == Len(SelectSeq(Flatten(d), LAMBDA r : r.kind = "seg"))

\* The save called by the cancellation branch of the loop has been invoked.
CancelSaveInvoked ==
    \/ sv.kind = "cancel"
    \/ \E i \in DOMAIN hist.saves : hist.saves[i].kind = "cancel"

\* C5: the loop polls the cancellation flag once per fetched segment, before
\* the segment is processed.  Once a poll has seen the flag set, the document
\* is never changed again, the polled segment is not appended, the document is
\* saved exactly when auto-save is enabled, and the loop is left for good; so
\* at most one segment is appended after the flag was set.
C5_CancelLatency ==
    /\ [](/\ hist.polls = nsegs
          /\ NumSegAnchors <= nsegs
          /\ pc = "process" => ~hist.seen /\ NumSegAnchors = nsegs - 1
          /\ hist.seen => /\ pc \in { "save_open", "save_write", "done", "crashed" }
                          /\ outcome # "finished"
                          /\ NumSegAnchors = nsegs - 1
                          /\ CancelSaveInvoked <=> cfg.auto_save
          /\ ~hist.seen => ~CancelSaveInvoked
          /\ hist.late <= 1)
    /\ [][hist.seen => d' = d /\ p' = p]_vars

\* C5 witness: the flag was set while a segment was being processed, that
\* segment was appended, the next poll saw the flag, the document was saved and
\* the run has ended.
C5_Witness ==
    /\ pc = "done"
    /\ hist.seen
    /\ hist.late = 1
    /\ cfg.auto_save
    /\ hist.saves # << >>
    /\ hist.saves[Len(hist.saves)].kind = "cancel"
    /\ hist.saves[Len(hist.saves)].result = "ok"

\* C6: a run ended by user cancellation in the segment loop has an outcome other than the failure
\* outcome, and the cancellation is not logged with severity 'error' (the only
\* 'error' entries of such a run are rescue notifications of a save).
C6_CancelNotAnError ==
    hist.seen /\ exc = "err_user_cancelation" =>
      /\ outcome # "error"
      /\ \A i \in DOMAIN log : log[i].sev = "error" => log[i] = RescueEntry

\* The failures raised while a segment is fetched or processed.
SegmentFailures == { "diarization_load_failed", "segment_source_failed" }

\* C7: when a failure is raised while a segment is processed (after at least
\* one segment has been appended), the run ends in the handler, the failure is logged, and a save of the document built so far
\* has been attempted when transcribe returns.
C7_BestEffortSave ==
    pc = "done" /\ exc \in SegmentFailures /\ NumSegAnchors >= 1 =>
      /\ outcome = "error"
      /\ \E j \in DOMAIN log : log[j] = Entry(exc, "error", "")
      /\ \E i \in DOMAIN hist.saves : hist.saves[i].text = Parse(cfg.file_ext, d)

\* C8: a periodic save that fails is reported and does not end the loop: when
\* the run is over, a later save has been attempted.
C8_PeriodicFailureContinues ==
    \A i \in DOMAIN hist.saves :
      LET r == hist.saves[i]
      IN  r.kind = "periodic" /\ r.result # "ok" =>
            /\ \E j \in DOMAIN log : log[j] = Entry(r.result, "error", "")
            /\ pc = "done" => i < Len(hist.saves)

\* The completion signal: logn_callback(t('transcription_finished'), 'highlight')
Completion == Entry("transcription_finished", "highlight", "")

\* Number of final saves invoked so far.
FinalSaves ==
    Cardinality({ i \in DOMAIN hist.saves : hist.saves[i].kind = "final" })
    + (IF sv.kind = "final" THEN 1 ELSE 0)

\* C9: a run whose stream is exhausted without cancellation or failure makes
\* exactly one final save, of the document holding the anchor of every segment
\* of the stream, with auto-save on or off; the completion signal is logged
\* only after that save has succeeded.
C9_FinalSave ==
    /\ FinalSaves <= 1
    /\ (\E j \in DOMAIN log : log[j] = Completion) => outcome = "finished"
    /\ pc = "done" /\ exc = NoExc => outcome = "finished"
    /\ outcome = "finished" =>
         /\ FinalSaves = 1
         /\ hist.saves # << >>
         /\ LET r == hist.saves[Len(hist.saves)]
            IN  /\ r.kind = "final"
                /\ r.result = "ok"
                /\ r.text = Parse(cfg.file_ext, d)
                /\ fs[r.target] = File("complete", r.text)
         /\ NumSegAnchors = nsegs
         /\ \E j \in DOMAIN log : log[j] = Completion

\* C9 witness: a finished run of two segments with auto-save disabled.
C9_Witness ==
    /\ outcome = "finished"
    /\ ~cfg.auto_save
    /\ nsegs = 2
    /\ NumSegAnchors = 2

\* C10: every failure that ends a run is logged with severity 'error' and
\* transcribe returns normally: no exception leaves transcribe.
C10_FailuresLogged ==
    pc = "done" /\ exc # NoExc =>
      /\ outcome = "error"
      /\ \E j \in DOMAIN log : log[j] = Entry(exc, "error", "")

\* C11: when speaker detection is enabled and the diarization file cannot be
\* read, the run aborts before any segment is processed: no poll of the loop
\* is acted on, no pause marker and no anchor is appended, and the run does
\* not finish normally, also when the segment stream is empty.
C11_UnreadableAbortsFirst ==
    cfg.speaker_detection /\ diarization_file = Unreadable =>
      /\ ~hist.seen
      /\ Anchors(d) = << >>
      /\ outcome # "finished"

\* ================================================ the assembler on its own
\* The run of transcribe() with every switch of the assembler free, on a
\* writable primary path.
DiarSingle == << [ start |-> 0, end |-> 1500, label |-> "SPEAKER_00" ] >>

\* A diarization file in which two speakers in turn talk over a third one.
DiarThree ==
    << [ start |-> 0,    end |-> 5000, label |-> "SPEAKER_00" ],
       [ start |-> 1000, end |-> 2000, label |-> "SPEAKER_01" ],
       [ start |-> 2000, end |-> 3000, label |-> "SPEAKER_02" ],
       [ start |-> 3000, end |-> 4000, label |-> "SPEAKER_01" ] >>

AsmDiarFiles == { DiarSingle, DiarOverlap, DiarThree }

AsmConfigs ==
    [ auto_save : { FALSE }, file_ext : { "html", "vtt" }, speaker_detection : BOOLEAN,
      overlapping_speech_selected : BOOLEAN, pause : { 0, 1 }, timestamps : BOOLEAN,
      timestamp_interval : { 1000 }, audio_start : { 0, 500 } ]

InitAsm ==
    /\ cfg \in AsmConfigs
    /\ primary_locked = FALSE
    /\ diarization_file \in AsmDiarFiles
    /\ fs = [ primary |-> Absent, fallback |-> Absent ]
    /\ fn = NoCall
    /\ Start

NextAsm ==
    \/ Construct
    \/ LoadModel
    \/ Prepare
    \/ Fetch
    \/ FetchEnd
    \/ Process
    \/ SaveOpen
    \/ SaveWrite

SpecAsm == InitAsm /\ [][NextAsm]_vars

\* The same run with speaker detection while another process may rewrite the
\* diarization file.
InitDiar == InitAsm /\ cfg.speaker_detection

\* Another process replaces the content of cfg.diarization_file.  The loop
\* reads the file once per segment, so a change at any moment shows in the
\* run like one made while the loop waits for the next segment.
DiarChange ==
    /\ pc = "fetch"
    /\ \E f \in AsmDiarFiles \ { diarization_file } : diarization_file' = f
    /\ UNCHANGED << cfg, primary_locked, fn, cancel, pc, outcome, exc, asmVars, segment,
                    nsegs, now, last_save, fs, sv, log, hist >>

NextDiar == NextAsm \/ DiarChange

SpecDiar == InitDiar /\ [][NextDiar]_vars

\* C12: the diarization list is loaded once and is the same value for every
\* speaker resolution of the run: all loads the run makes return one content,
\* whatever another process does to the file between two segments.
C12_DiarizationSnapshot ==
    Cardinality(hist.reads) <= 1

\* ======================================================= the pure functions
\* Each function of the module is called on its own, on inputs drawn from
\* bounded sets: the state before the call of transcribe(), with the call in fn.
\* Times of the intervals handed to overlap_len and find_speaker: 0 .. MaxT.
MaxT == 3

\* Largest number of segments of a diarization list handed to find_speaker.
MaxDiar == 3

Times == 0 .. MaxT

\* {start, end} with end >= start, as pyannote and whisper deliver them.
Intervals == { iv \in [ start : Times, end : Times ] : iv.start <= iv.end }

\* The label of the i-th segment of a list: every segment its own speaker.
PosLabel(i) ==
    CASE i = 1 -> "SPEAKER_00"
      [] i = 2 -> "SPEAKER_01"
      [] i = 3 -> "SPEAKER_02"
      [] OTHER -> "SPEAKER_03"

\* The diarization lists of at most MaxDiar segments, sorted by start.
Diarizations ==
    UNION { { [ i \in 1 .. n |-> [ start |-> f[i].start, end |-> f[i].end,
                                   label |-> PosLabel(i) ] ] :
                f \in { g \in [ 1 .. n -> Intervals ] :
                           \A i \in 1 .. n - 1 : g[i].start <= g[i + 1].start } } :
            n \in 0 .. MaxDiar }

Call(op, args) == [ op |-> op, args |-> args, done |-> FALSE, result |-> << >> ]

OverlapCalls ==
    { Call("overlap_len", << a, b, c, e >>) : a \in Times, b \in Times, c \in Times, e \in Times }

FindCalls ==
    { Call("find_speaker", << dz, ts.start, ts.end, sw >>) :
        dz \in Diarizations, ts \in Intervals, sw \in BOOLEAN }

\* Gaps between two segments in milliseconds, around the limits of the three
\* forms of the pause marker.
PauseGaps ==
    { 0, 999, 1000, 1499, 1500, 2500, 9499, 9500, 9999, 10000, 10500, 59499, 59500,
      59999, 60000, 89999, 90000, 150000, 3600000 }

\* cfg.pause, the end of the segment before, the gap, and first_segment.
PauseCalls ==
    { Call("pause", << pause, prev.lse, gap, prev.first >>) :
        pause \in 0 .. 2, gap \in PauseGaps,
        prev \in { [ lse |-> 0, first |-> TRUE ], [ lse |-> 5000, first |-> FALSE ] } }

\* Audio positions in milliseconds, around the limits of the fields of a
\* WebVTT time stamp.
CueTimes == { 0, 999, 1000, 2500, 59999, 60000, 3599999, 3600000, 3661001, 360000000 }

\* An anchor as transcribe() names it: start, end and the speaker.
CueCalls ==
    { Call("cue", << iv[1], iv[2], l >>) :
        iv \in { x \in CueTimes \X CueTimes : x[1] <= x[2] }, l \in SpeakerNames }

FnCalls == OverlapCalls \cup FindCalls \cup PauseCalls \cup CueCalls

FnConfigs ==
    [ auto_save : { FALSE }, file_ext : { "html" }, speaker_detection : { TRUE },
      overlapping_speech_selected : { TRUE }, pause : { 1 }, timestamps : { FALSE },
      timestamp_interval : { 60000 }, audio_start : { 0 } ]

InitFn ==
    /\ cfg \in FnConfigs
    /\ primary_locked = FALSE
    /\ diarization_file = DiarSingle
    /\ fs = [ primary |-> Absent, fallback |-> Absent ]
    /\ fn \in FnCalls
    /\ Start

\* The call returns: fn holds its result, nothing else changes.
Return(result) ==
    /\ ~fn.done
    /\ fn' = [ fn EXCEPT !.done = TRUE, !.result = result ]
    /\ UNCHANGED << cfg, primary_locked, diarization_file, cancel, pc, outcome, exc,
                    asmVars, segment, nsegs, now, last_save, fs, sv, log, hist >>

CallOverlapLen ==
    /\ fn.op = "overlap_len"
    /\ Return(overlap_len(fn.args[1], fn.args[2], fn.args[3], fn.args[4]))

CallFindSpeaker ==
    /\ fn.op = "find_speaker"
    /\ Return(find_speaker(fn.args[1], fn.args[2], fn.args[3], fn.args[4]))

\* The pause detection of the loop body, for a segment that starts fn.args[3]
\* milliseconds after the end of the segment before.
CallPause ==
    /\ fn.op = "pause"
    /\ Return(PauseStep([ cfg EXCEPT !.pause = fn.args[1] ],
                         [ AsmState EXCEPT !.d = HeaderDoc, !.p = 3,
                                           !.last_segment_end = fn.args[2],
                                           !.first_segment = fn.args[4] ],
                         [ start |-> fn.args[2] + fn.args[3],
                           end   |-> fn.args[2] + fn.args[3] + 1000,
                           text  |-> 1 ]))

\* html_to_webvtt on the document that holds one anchor after its header.
CallCue ==
    /\ fn.op = "cue"
    /\ Return(html_to_webvtt(AppendChild(HeaderDoc, 3,
                 Run("seg", fn.args[1], fn.args[2], fn.args[3], SegHtml("", NoTs, 1, FALSE)))))

NextFn ==
    \/ CallOverlapLen
    \/ CallFindSpeaker
    \/ CallPause
    \/ CallCue

SpecFn == InitFn /\ [][NextFn]_vars

\* find_speaker has returned.
Found == fn.op = "find_speaker" /\ fn.done

\* Each segment of the list ends before the next one starts.
Disjoint(dz) == \A i \in 1 .. Len(dz) - 1 : dz[i].end < dz[i + 1].start

\* The speech interval start .. end lies inside segment k of the list, and
\* inside no other segment.
InsideOnly(dz, k, start, end) ==
    /\ dz[k].start <= start /\ end <= dz[k].end
    /\ \A j \in DOMAIN dz \ { k } : ~(dz[j].start <= start /\ end <= dz[j].end)

\* C13 as stated: for every list of pairwise disjoint segments ordered by
\* start and every speech interval inside exactly one of them, find_speaker
\* returns the shortened label of that segment, unmarked, whatever the switch.
C13_InsideOneSegment ==
    Found /\ Disjoint(fn.args[1]) =>
      \A k \in DOMAIN fn.args[1] :
        InsideOnly(fn.args[1], k, fn.args[2], fn.args[3]) =>
          fn.result = ShortLabel(fn.args[1][k].label)

\* C13, amended: the same for every speech interval of positive length; a
\* speech interval whose end equals its start resolves to no speaker.
C13_InsideOneSegmentPositive ==
    Found /\ Disjoint(fn.args[1]) =>
      \A k \in DOMAIN fn.args[1] :
        InsideOnly(fn.args[1], k, fn.args[2], fn.args[3]) =>
          fn.result = IF fn.args[3] > fn.args[2]
                      THEN ShortLabel(fn.args[1][k].label) ELSE NoSpeaker

\* C13 witness: a speech interval of positive length inside the second of
\* three disjoint segments, with overlap marking on, resolved to S01.
C13_Witness ==
    /\ Found
    /\ Len(fn.args[1]) = 3
    /\ Disjoint(fn.args[1])
    /\ InsideOnly(fn.args[1], 2, fn.args[2], fn.args[3])
    /\ fn.args[3] > fn.args[2]
    /\ fn.args[4]
    /\ fn.result = "S01"

\* The overlap of segment i of the list with the speech interval of the call.
OverlapOf(i) ==
    overlap_len(fn.args[1][i].start, fn.args[1][i].end, fn.args[2], fn.args[3])

\* The segments of the list that overlap the speech interval by 0.8 or more.
WellOverlapping ==
    { i \in DOMAIN fn.args[1] : ~OverlapOf(i).none /\ FracGe(OverlapOf(i), overlap_threshold) }

SegLen(i) == fn.args[1][i].end - fn.args[1][i].start

\* The shortest of the well-overlapping segments, the first of them in list
\* order when several are equally short.
ShortestFirst ==
    CHOOSE i \in WellOverlapping :
      \A j \in WellOverlapping : SegLen(i) < SegLen(j) \/ (SegLen(i) = SegLen(j) /\ i <= j)

\* C14: when two or more segments of a start-ordered list overlap the speech
\* interval by 0.8 or more, find_speaker returns the label of the shortest of
\* them, the first in list order among equally short ones ('//' put before
\* the label or not).
C14_ShortestWins ==
    Found /\ Cardinality(WellOverlapping) >= 2 =>
      LET l == ShortLabel(fn.args[1][ShortestFirst].label)
      IN  fn.result \in { l, MarkOverlap(l) }

\* C14 witness: three segments overlap well, the second and the third are
\* equally long and shorter than the first, and the second has been returned.
C14_Witness ==
    /\ Found
    /\ WellOverlapping = { 1, 2, 3 }
    /\ SegLen(2) = SegLen(3)
    /\ SegLen(2) < SegLen(1)
    /\ fn.result \in { "S01", "//S01" }

\* C15: overlap_len returns None whenever the transcript segment ends before
\* the speaker segment starts, whatever the other two parameters are.
C15_BeforeIsNone ==
    fn.op = "overlap_len" /\ fn.done /\ fn.args[4] < fn.args[1] => fn.result = None

\* C15 witness: a call with ts_end < ss_start in which the speaker segment
\* ends before it starts and lies before the start of the transcript segment,
\* which starts after its end.
C15_Witness ==
    /\ fn.op = "overlap_len"
    /\ fn.done
    /\ fn.args[4] < fn.args[1]
    /\ fn.args[2] < fn.args[1]
    /\ fn.args[3] > fn.args[4]
    /\ fn.args[3] > fn.args[2]
    /\ fn.result = None

\* The segments find_speaker scans: those before the first None.
Scanned == { i \in DOMAIN fn.args[1] : \A j \in 1 .. i : ~OverlapOf(j).none }

\* C16: find_speaker returns a speaker name for every well-formed list, and
\* the empty string exactly when no scanned segment overlaps the speech
\* interval by more than 0; so for the empty list it returns the empty string.
C16_EmptyIffNoOverlap ==
    Found =>
      /\ fn.result \in SpeakerNames
      /\ fn.result = NoSpeaker <=> ~ \E i \in Scanned : FracGt(OverlapOf(i), Frac(0, 1))
      /\ fn.args[1] = << >> => fn.result = NoSpeaker

\* C16 witness: two segments without overlap were scanned before the scan
\* ended at a third one, and the empty string was returned.
C16_Witness ==
    /\ Found
    /\ Len(fn.args[1]) = 3
    /\ Scanned = { 1, 2 }
    /\ fn.result = NoSpeaker

\* The pause detection has run and has appended a pause marker.
PauseEmitted == fn.op = "pause" /\ fn.done /\ Len(fn.result.d[3]) = 1

\* The text of the pause marker appended, and the gap it stands for.
PauseText == fn.result.d[3][1].html

PauseGap == fn.args[3]

\* C17 as stated: a gap of 60000 ms or more gives the minutes phrase (N = 1
\* for 60000), a gap from 10000 ms to below 60000 ms the seconds phrase, a
\* gap below 10000 ms the glyph once per elapsed second (9 or 10 for 9999).
C17_PauseTextByGap ==
    PauseEmitted =>
      /\ PauseGap >= 60000 => PauseText.form = "pause_minutes"
      /\ PauseGap = 60000 => PauseText.n = 1
      /\ PauseGap >= 10000 /\ PauseGap < 60000 => PauseText.form = "pause_seconds"
      /\ PauseGap < 10000 => /\ PauseText.form = "pause_marker"
                             /\ PauseText.n \in { PauseGap \div 1000, PauseGap \div 1000 + 1 }

\* C17, amended: the limits apply to the gap rounded to whole seconds.  A gap
\* of 59500 ms or more gives the minutes phrase with the nearest number of
\* minutes (1 for 60000), a gap from 9500 ms to below 59500 ms the seconds
\* phrase with the nearest number of seconds (10 for 9999 and for 10000), a
\* gap below 9500 ms the glyph once per nearest second.
C17_PauseTextByRoundedGap ==
    PauseEmitted =>
      /\ PauseGap >= 59500 =>
            /\ PauseText.form = "pause_minutes"
            /\ 60000 * PauseText.n - PauseGap <= 30500
            /\ PauseGap - 60000 * PauseText.n <= 30500
      /\ PauseGap = 60000 => PauseText.n = 1
      /\ PauseGap >= 9500 /\ PauseGap < 59500 => PauseText.form = "pause_seconds"
      /\ PauseGap < 9500 => PauseText.form = "pause_marker"
      /\ PauseGap < 59500 =>
            /\ 1000 * PauseText.n - PauseGap <= 500
            /\ PauseGap - 1000 * PauseText.n <= 500
      /\ PauseGap \in { 9999, 10000 } => PauseText.n = 10

\* C17 witness: a gap of 9999 ms has been marked with the seconds phrase.
C17_Witness ==
    /\ PauseEmitted
    /\ PauseGap = 9999
    /\ PauseText.form = "pause_seconds"
    /\ PauseText.n = 10

\* html_to_webvtt has rendered the document with the one anchor of the call.
CueRendered == fn.op = "cue" /\ fn.done

\* The time stamp stamp is ms written as hours, minutes, seconds, milliseconds.
IsStampOf(stamp, ms) ==
    /\ stamp[1] = ms \div 3600000
    /\ stamp[2] \in 0 .. 59
    /\ stamp[3] \in 0 .. 59
    /\ stamp[4] \in 0 .. 999
    /\ stamp[1] * 3600000 + stamp[2] * 60000 + stamp[3] * 1000 + stamp[4] = ms

\* C18: for an anchor named ts_<a>_<b>_<L> the caption renderer emits one
\* cue whose start is a and whose end is b as HH:MM:SS.mmm and whose voice
\* tag is exactly L; ts_1000_2500_S01 gives 00:00:01.000, 00:00:02.500, S01.
C18_AnchorToCue ==
    CueRendered =>
      LET cues == fn.result[3]
      IN  /\ Len(cues) = 1
          /\ IsStampOf(cues[1].start, fn.args[1])
          /\ IsStampOf(cues[1].end, fn.args[2])
          /\ cues[1].v = fn.args[3]
          /\ fn.args = << 1000, 2500, "S01" >> =>
                /\ cues[1].start = << 0, 0, 1, 0 >>
                /\ cues[1].end = << 0, 0, 2, 500 >>

\* C18 witness: the anchor ts_3600000_3661001_//S01 has been rendered to a cue
\* from 01:00:00.000 to 01:01:01.001 with the voice tag //S01.
C18_Witness ==
    /\ CueRendered
    /\ fn.args = << 3600000, 3661001, "//S01" >>
    /\ fn.result[3][1].start = << 1, 0, 0, 0 >>
    /\ fn.result[3][1].end = << 1, 1, 1, 1 >>
    /\ fn.result[3][1].v = "//S01"

\* What find_speaker returns for the fetched segment on the present content
\* of the diarization file.
Resolved ==
    find_speaker(diarization_file, segment.start, segment.end,
                 cfg.overlapping_speech_selected)

\* The last run of the current paragraph.
LastOfCurrent == d[p][Len(d[p])]

\* C19: every processed segment appends exactly one anchor to the current
\* paragraph, named ts_<audio.start + start>_<audio.start + end>_<speaker>,
\* speaker being the current speaker after the resolution of this segment:
\* the resolved speaker, the prior speaker when the resolution gave none, the
\* empty label when speaker detection is disabled.  The only other anchor a
\* segment can add is the one of its pause marker.
C19_OneAnchorPerSegment ==
    [][pc = "process" /\ pc' \in { "fetch", "save_open" } =>
         /\ NumSegAnchors' = NumSegAnchors + 1
         /\ Len(Anchors(d')) = Len(Anchors(d))
              + IF PauseDetected(cfg, segment.start, last_segment_end) THEN 2 ELSE 1
         /\ Len(d'[p']) >= 1
         /\ LastOfCurrent'.kind = "seg"
         /\ AnchorName(LastOfCurrent'.a, LastOfCurrent'.b, LastOfCurrent'.spk)
              = << "ts", cfg.audio_start + segment.start, cfg.audio_start + segment.end,
                   speaker' >>
         /\ speaker' = IF ~cfg.speaker_detection THEN NoSpeaker
                        ELSE IF Resolved = NoSpeaker THEN speaker
                        ELSE Resolved]_vars

\* C19 witness: with 500 ms skipped at the beginning of the audio, the third
\* segment resolved to no speaker and its anchor carries the prior speaker S00.
C19_Witness ==
    /\ pc = "fetch"
    /\ nsegs = 3
    /\ NumSegAnchors = 3
    /\ cfg.audio_start = 500
    /\ cfg.speaker_detection
    /\ Resolved = NoSpeaker
    /\ LastOfCurrent.kind = "seg"
    /\ LastOfCurrent.a = 500 + segment.start
    /\ LastOfCurrent.b = 500 + segment.end
    /\ LastOfCurrent.spk = "S00"

\* The anchors of the speech segments, in document order.
SegAnchors == SelectSeq(Flatten(d), LAMBDA r : r.kind = "seg")

\* C20: when all segments processed so far resolved to one speaker, with
\* overlap marking disabled, the body after the title and the notes paragraph
\* is a single paragraph: it starts with the label of that speaker and holds
\* one anchor per segment in stream order, and there is no other paragraph.
C20_SingleSpeakerSingleParagraph ==
    /\ cfg.speaker_detection
    /\ ~cfg.overlapping_speech_selected
    /\ pc = "fetch"
    /\ nsegs >= 1
    /\ \E l \in Labels : \A i \in DOMAIN SegAnchors : SegAnchors[i].spk = ShortLabel(l)
    => /\ Len(d) = 3
       /\ SelectSeq(d[3], LAMBDA r : r.kind = "seg") = SegAnchors
       /\ Len(SegAnchors) = nsegs
       /\ SegAnchors[1].html.pre = "speaker"
       /\ \A i \in DOMAIN SegAnchors : SegAnchors[i].html.body = i

\* The save in progress has rendered the document.
Rendering == sv.kind # "none" /\ pc = "save_write"

\* C21: a format other than 'html', 'txt' and 'vtt' is rejected when the saver
\* is constructed: the run ends there and no save is ever attempted, no file
\* touched.  With an accepted format every save renders the document with the
\* renderer of that format: html the markup, txt the plain text, vtt the cues.
C21_FormatValidatedAtConstruction ==
    /\ ~ValidFormat(cfg.file_ext) =>
          /\ pc \in { "construct", "done", "crashed" }
          /\ pc = "done" => exc = "invalid_file_type"
          /\ sv = NoSave
          /\ hist.saves = << >>
          /\ fs.primary.state \in { "absent", "foreign" }
          /\ fs.fallback.state \in { "absent", "foreign" }
    /\ ValidFormat(cfg.file_ext) =>
          /\ \A i \in DOMAIN hist.saves :
                /\ hist.saves[i].text.fmt = cfg.file_ext
                /\ hist.saves[i].text.body # << >>
          /\ Rendering =>
                /\ sv.text.fmt = cfg.file_ext
                /\ sv.text.body = CASE cfg.file_ext = "html" -> d
                                     [] cfg.file_ext = "txt"  -> html_to_text(d)
                                     [] cfg.file_ext = "vtt"  -> html_to_webvtt(d)

\* C21 witness: a run with format vtt in which two saves have ended, both with
\* the cues of the document as their text.
C21_Witness ==
    /\ cfg.file_ext = "vtt"
    /\ Len(hist.saves) = 2
    /\ \A i \in DOMAIN hist.saves :
          hist.saves[i].result = "ok" /\ hist.saves[i].text.fmt = "vtt"

\* overlap_len has returned; its arguments by name.
Overlapped == fn.op = "overlap_len" /\ fn.done

SegStart == fn.args[1]

SegEnd == fn.args[2]

RefStart == fn.args[3]

RefEnd == fn.args[4]

\* C22 as stated: overlap_len returns None for every speech interval with
\* ref_end - ref_start <= 0, whatever the diarization interval is.
C22_DegenerateIsNone ==
    Overlapped /\ RefEnd - RefStart <= 0 => fn.result = None

\* C22, amended: for a speech interval with ref_end - ref_start <= 0,
\* overlap_len returns 0.0 when the diarization interval lies entirely before
\* the speech interval and does not start after its end, and None otherwise.
C22_DegenerateIsNoneUnlessAfter ==
    Overlapped /\ RefEnd - RefStart <= 0 =>
      fn.result = IF RefStart > SegEnd /\ RefEnd >= SegStart THEN Frac(0, 1) ELSE None

\* C22 witness: the speech interval 2..2 after the diarization interval 0..1
\* has given 0.0.
C22_Witness ==
    /\ Overlapped
    /\ fn.args = << 0, 1, 2, 2 >>
    /\ fn.result = Frac(0, 1)

\* The milliseconds that lie in both intervals, their end points included.
CommonPoints == (SegStart .. SegEnd) \cap (RefStart .. RefEnd)

RefLength == RefEnd - RefStart

\* C23: for a speech interval of positive length that meets a well-formed
\* diarization interval, overlap_len returns the number of milliseconds in
\* both intervals (end points included) divided by the length of the speech
\* interval: at least 1 / ref_length, and (ref_length + 1) / ref_length, above
\* 1, when the speech interval lies inside the diarization interval.
C23_InclusiveFraction ==
    Overlapped /\ RefLength > 0 /\ SegStart <= SegEnd /\ RefEnd >= SegStart
               /\ RefStart <= SegEnd =>
      /\ ~fn.result.none
      /\ fn.result.den > 0
      /\ fn.result.num * RefLength = Cardinality(CommonPoints) * fn.result.den
      /\ fn.result.num * RefLength >= fn.result.den
      /\ SegStart <= RefStart /\ RefEnd <= SegEnd =>
            /\ fn.result.num * RefLength = (RefLength + 1) * fn.result.den
            /\ fn.result.num > fn.result.den

\* C23 witness: the speech interval 1..3 touches the diarization interval
\* 0..1 in one end point and has the fraction 1/2.
C23_Witness ==
    /\ Overlapped
    /\ fn.args = << 0, 1, 1, 3 >>
    /\ fn.result = Frac(1, 2)

\* C24: find_speaker returns a label with '//' before it if and only if
\* overlap marking is enabled and the winning segment replaced an earlier
\* segment of overlap 0.8 or more (it is the shortest of the well-overlapping
\* segments and not the first of them); with overlap marking disabled the
\* result never starts with '//'.
C24_MarkedIffReplaced ==
    Found =>
      /\ IsMarked(fn.result) <=>
            /\ fn.args[4]
            /\ WellOverlapping # { }
            /\ \E j \in WellOverlapping : j < ShortestFirst
      /\ IsMarked(fn.result) =>
            fn.result = MarkOverlap(ShortLabel(fn.args[1][ShortestFirst].label))
      /\ ~fn.args[4] => ~IsMarked(fn.result)

\* C24 witness: with overlap marking enabled the second of two
\* well-overlapping segments is the shorter one and has been returned marked.
C24_Witness ==
    /\ Found
    /\ fn.args[4]
    /\ WellOverlapping = { 1, 2 }
    /\ SegLen(2) < SegLen(1)
    /\ fn.result = "//S01"

\* ------------------------------------------------- the speaker transitions
\* A step that processes the fetched segment to its end.
ProcessStep == pc = "process" /\ pc' \in { "fetch", "save_open" }

\* The labels find_speaker returns with the overlap marker.
MarkedNames == { MarkOverlap(ShortLabel(l)) : l \in Labels }

\* The paragraphs other than the current one are left as they are.
OthersKept == \A i \in DOMAIN d : i # p => d'[i] = d[i]

\* C25: entering overlap.  When the resolved label is not empty, differs from
\* the current speaker and carries '//', no paragraph is created,
\* prev_speaker becomes the speaker current before the segment, speaker
\* becomes the marked label, and the segment's run is appended to the current
\* paragraph with ' <label>:' before its text.
C25_EnterOverlap ==
    [][ProcessStep /\ cfg.speaker_detection /\ Resolved # NoSpeaker
                   /\ Resolved # speaker /\ Resolved \in MarkedNames =>
         /\ Len(d') = Len(d)
         /\ p' = p
         /\ OthersKept
         /\ prev_speaker' = speaker
         /\ speaker' = Resolved
         /\ LastOfCurrent'.kind = "seg"
         /\ LastOfCurrent'.spk = Resolved
         /\ LastOfCurrent'.html = SegHtml("overlap_speaker", NoTs, segment.text, FALSE)]_vars

\* C25 witness: after a segment of S00 a segment resolved to //S01 and was
\* appended to the paragraph of S00 with the label before its text.
C25_Witness ==
    /\ pc = "fetch"
    /\ nsegs = 2
    /\ Len(d) = 4
    /\ Len(d[4]) = 2
    /\ prev_speaker = "S00"
    /\ speaker = "//S01"
    /\ LastOfCurrent.html.pre = "overlap_speaker"

GenuineChange ==
    /\ ProcessStep
    /\ cfg.speaker_detection
    /\ Resolved # NoSpeaker
    /\ Resolved \notin MarkedNames
    /\ Resolved # speaker
    /\ ~(speaker \in MarkedNames /\ Resolved = prev_speaker)

LastOfLeft == d'[p][Len(d'[p])]

\* The close marker is at the end of the paragraph being left exactly when the
\* speaker being left was marked; a new paragraph is current; the speaker is
\* the resolved label.
ChangeOfParagraph ==
    /\ Len(d'[p]) >= Len(d[p])
    /\ Len(d[p]) > 0 => LastOfLeft.close = (speaker \in MarkedNames)
    /\ speaker \in MarkedNames => Len(d[p]) > 0
    /\ Len(d') = Len(d) + 1
    /\ p' = Len(d')
    /\ Len(d'[p']) = 1
    /\ speaker' = Resolved
    /\ d'[p'][1].spk = Resolved
    /\ d'[p'][1].html.body = segment.text
    /\ cfg.timestamps =>
          /\ d'[p'][1].html.ts = ms_to_str(cfg.audio_start + segment.start)
          /\ last_timestamp_ms' = segment.start
    /\ ~cfg.timestamps =>
          /\ d'[p'][1].html.ts = NoTs
          /\ last_timestamp_ms' = last_timestamp_ms

\* C27 as stated: a genuine speaker change closes the overlap in the paragraph
\* being left, starts a new paragraph, sets the speaker, and the first run of
\* the new paragraph begins with the speaker label.
C27_GenuineChange ==
    [][GenuineChange => ChangeOfParagraph /\ d'[p'][1].html.pre = "speaker"]_vars

\* C27, amended: the same, but in a vtt transcript without timestamps the
\* first run of the new paragraph is the stripped segment text, without label.
C27_GenuineChangeLabelUnlessVtt ==
    [][GenuineChange =>
         /\ ChangeOfParagraph
         /\ d'[p'][1].html.pre =
               (IF ~cfg.timestamps /\ cfg.file_ext = "vtt" THEN "" ELSE "speaker")
         /\ d'[p'][1].html.lstrip = (~cfg.timestamps /\ cfg.file_ext = "vtt")]_vars

\* C27 witness: the first paragraph ends with a close marker after a marked
\* speaker, and an unmarked speaker has a paragraph of their own after it.
C27_Witness ==
    /\ pc = "fetch"
    /\ Len(d) = 5
    /\ Len(d[4]) > 0
    /\ d[4][Len(d[4])].close
    /\ d[4][Len(d[4])].spk \in MarkedNames
    /\ Len(d[5]) = 1
    /\ speaker # NoSpeaker
    /\ speaker \notin MarkedNames
    /\ d[5][1].spk = speaker
    /\ d[5][1].html.pre = "speaker"

\* C28: a processing step adds a paragraph exactly when the segment is a
\* genuine speaker change, and then exactly one; every other segment leaves
\* the number of paragraphs and the current paragraph as they are, and an
\* empty resolution leaves speaker and prev_speaker as they are.
C28_ParagraphIffGenuineChange ==
    [][ProcessStep =>
         /\ (Len(d') # Len(d)) = GenuineChange
         /\ GenuineChange => Len(d') = Len(d) + 1
         /\ ~GenuineChange => p' = p
         /\ ~cfg.speaker_detection \/ Resolved = NoSpeaker =>
               speaker' = speaker /\ prev_speaker' = prev_speaker]_vars

\* C28 witness: S00 has spoken, the second segment resolved to no speaker, and
\* it went into S00's paragraph.
C28_Witness ==
    /\ pc = "fetch"
    /\ cfg.speaker_detection
    /\ nsegs = 2
    /\ Resolved = NoSpeaker
    /\ speaker = "S00"
    /\ Len(d) = 4
    /\ Len(d[4]) = 2
    /\ d[4][2].spk = "S00"

\* C29: a pause marker is appended exactly when pause marking is on and the
\* gap between the previous segment's end and the segment's start is greater
\* than the threshold; a gap equal to the threshold gives no marker.
C29_PauseIffGapExceeds ==
    fn.op = "pause" /\ fn.done =>
      (PauseEmitted <=> fn.args[1] > 0 /\ PauseGap > fn.args[1] * 1000)

\* The segment in process comes after a pause.
Paused == ProcessStep /\ PauseDetected(cfg, segment.start, last_segment_end)

\* The run appended first to the paragraph that was current.
FirstAppended == d'[p][Len(d[p]) + 1]

\* C30: the pause marker is appended before the speaker is resolved.  It is
\* the first run added to the paragraph that was current before the segment,
\* its anchor is named by the audio positions of the previous segment's end
\* and of the segment's start and by the speaker before the segment, and the
\* segment's own anchor comes after it, in this or in a new paragraph.
C30_PauseBeforeResolution ==
    [][Paused =>
         /\ Len(d'[p]) > Len(d[p])
         /\ FirstAppended.kind = "pause"
         /\ AnchorName(FirstAppended.a, FirstAppended.b, FirstAppended.spk)
              = AnchorName(cfg.audio_start + last_segment_end,
                           cfg.audio_start + segment.start, speaker)
         /\ LastOfCurrent'.kind = "seg"
         /\ p' = p => Len(d'[p]) = Len(d[p]) + 2
         /\ p' # p => /\ Len(d'[p]) = Len(d[p]) + 1
                      /\ Len(d'[p']) = 1]_vars

\* C30 witness: a paragraph ends with a pause marker named after its speaker,
\* and the segment after the pause opened the next paragraph for another
\* speaker.
C30_Witness ==
    /\ pc = "fetch"
    /\ Len(d) = 5
    /\ p = 5
    /\ Len(d[4]) >= 2
    /\ d[4][Len(d[4])].kind = "pause"
    /\ d[4][Len(d[4])].spk = d[4][1].spk
    /\ d[4][Len(d[4])].spk # NoSpeaker
    /\ d[4][Len(d[4])].b = cfg.audio_start + segment.start
    /\ Len(d[5]) = 1
    /\ d[5][1].kind = "seg"
    /\ d[5][1].spk = speaker
    /\ speaker # d[4][1].spk

\* The step appends the anchor of the fetched segment.
SegAppended ==
    /\ pc = "process"
    /\ d' # d
    /\ Len(d'[p']) > 0
    /\ LastOfCurrent'.kind = "seg"
    /\ LastOfCurrent'.html.body = segment.text

\* A save is under way.
Saving == pc \in { "save_open", "save_write" }

\* C31: a periodic save starts exactly in the step that appends a segment's
\* anchor while auto-save is on and more than 20 seconds have passed since
\* last_save; last_save is the time of the saver's construction or of its
\* last completed save; and while a save is under way the document and the
\* assembler's state stay as they are.
C31_PeriodicSaveInline ==
    [][/\ (sv'.kind = "periodic" /\ sv.kind # "periodic")
            = (SegAppended /\ cfg.auto_save /\ now - last_save > 20)
       /\ sv'.kind = "periodic" /\ sv.kind # "periodic" => pc' = "save_open"
       /\ last_save' # last_save =>
             /\ last_save' = now
             /\ \/ pc = "construct"
                \/ /\ pc = "save_write"
                   /\ Len(hist'.saves) = Len(hist.saves) + 1
                   /\ hist'.saves[Len(hist'.saves)].result = "ok"
       /\ Saving => UNCHANGED asmVars]_vars

\* C31 witness: a periodic save has been completed between two segments.
C31_Witness ==
    /\ pc = "fetch"
    /\ cfg.auto_save
    /\ \E i \in DOMAIN hist.saves :
         /\ hist.saves[i].kind = "periodic"
         /\ hist.saves[i].result = "ok"
    /\ last_save = now
    /\ last_save > 20

\* The segment in process causes no speaker transition while timestamps are
\* on: speaker detection is off, or the resolution is empty or the current
\* speaker.
NoTransition ==
    /\ ProcessStep
    /\ cfg.timestamps
    /\ ~cfg.speaker_detection \/ Resolved = NoSpeaker \/ Resolved = speaker

\* More than the interval lies between the last timestamp and the segment.
IntervalExceeded == segment.start - last_timestamp_ms > cfg.timestamp_interval

Stamped == LastOfCurrent'.html.ts # NoTs

\* C32: a segment without speaker transition gets an inline timestamp, in the
\* current paragraph, exactly when its start lies more than the interval
\* after last_timestamp_ms, which then becomes the segment's start; without
\* speaker detection the first segment gets a timestamp as well.
C32_InlineTimestamp ==
    [][NoTransition =>
         /\ Len(d') = Len(d)
         /\ p' = p
         /\ LastOfCurrent'.kind = "seg"
         /\ LastOfCurrent'.html.pre = ""
         /\ Stamped = (IntervalExceeded \/ (~cfg.speaker_detection /\ first_segment))
         /\ Stamped => /\ LastOfCurrent'.html.ts = ms_to_str(cfg.audio_start + segment.start)
                       /\ last_timestamp_ms' = segment.start
         /\ ~Stamped => last_timestamp_ms' = last_timestamp_ms]_vars

\* C32 witness: the third segment of one speaker starts 2000 ms after the
\* paragraph's timestamp and got a timestamp of its own, the second one,
\* 1000 ms after it, got none.
C32_Witness ==
    /\ pc = "fetch"
    /\ cfg.timestamps
    /\ cfg.speaker_detection
    /\ nsegs = 3
    /\ Len(d[p]) = 3
    /\ d[p][1].html.pre = "speaker"
    /\ d[p][2].html.ts = NoTs
    /\ d[p][2].a = d[p][1].a + 1000
    /\ d[p][3].html.pre = ""
    /\ d[p][3].html.ts # NoTs
    /\ d[p][3].spk = d[p][1].spk
    /\ last_timestamp_ms = segment.start

\* The scan of find_speaker over the whole list, a segment with outcome None
\* skipped instead of ending the scan.
RECURSIVE ScanSkipping(_, _, _, _, _)
ScanSkipping(diarization, i, st, transcript_start, transcript_end) ==
    IF i > Len(diarization) THEN st
    ELSE LET seg == diarization[i]
             t   == overlap_len(seg.start, seg.end, transcript_start, transcript_end)
         IN  ScanSkipping(diarization, i + 1,
                          IF t.none THEN st ELSE FindStep(st, seg, t),
                          transcript_start, transcript_end)

LabelSkipping ==
    LET st == ScanSkipping(fn.args[1], 1, FindInit, fn.args[2], fn.args[3])
    IN  IF fn.args[4] /\ st.is_overlapping THEN MarkOverlap(st.spkr) ELSE st.spkr

SortedByStart(diarization) ==
    \A i \in 1 .. Len(diarization) - 1 : diarization[i].start <= diarization[i + 1].start

\* The position of the first segment of the list with outcome None, 0 if
\* there is none.
FirstNone ==
    LET ns == { i \in DOMAIN fn.args[1] :
                  overlap_len(fn.args[1][i].start, fn.args[1][i].end,
                              fn.args[2], fn.args[3]).none }
    IN  IF ns = { } THEN 0 ELSE CHOOSE i \in ns : \A j \in ns : i <= j

\* C33: for a diarization list sorted by start, find_speaker, which stops at
\* the first segment with outcome None, returns the label (the '//' marker
\* included) that a scan of the whole list skipping those segments returns.
C33_StopEqualsSkip ==
    Found /\ SortedByStart(fn.args[1]) => fn.result = LabelSkipping

\* C33 witness: the scan stopped before the last segment of the list, after
\* two well-overlapping segments, and returned a marked label.
C33_Witness ==
    /\ Found
    /\ FirstNone = 3
    /\ Len(fn.args[1]) = 3
    /\ fn.result \in MarkedNames

\* C34: whenever the current speaker is a marked label, prev_speaker is an
\* unmarked label or empty, also after two segments in a row that resolved to
\* two different marked labels.
C34_PrevSpeakerUnmarked ==
    speaker \in MarkedNames => prev_speaker \notin MarkedNames

\* Number of runs of kind k among the anchors of the document.
CountKind(doc, k) == Len(SelectSeq(Anchors(doc), LAMBDA r : r.kind = k))

\* Segments whose anchor the loop has appended so far.
Processed == IF pc = "process" THEN nsegs - 1 ELSE nsegs

\* Pause markers the loop has logged so far.
PausesLogged == Cardinality({ i \in DOMAIN log : log[i] = Entry("pause_str", "", "") })

\* The anchors stand in the order of the stream: the segments by their
\* number, and every anchor starts no earlier than the one before it ends.
StreamOrder(as) ==
    /\ \A i \in 1 .. Len(as) - 1 : as[i].b <= as[i + 1].a
    /\ LET segs == SelectSeq(as, LAMBDA r : r.kind = "seg")
       IN  \A i \in DOMAIN segs : segs[i].html.body = i

\* C35: the anchors of the document are the segment anchors of the processed
\* segments and the pause markers emitted, in the order of the stream, and a
\* step keeps every anchor appended before, in its place and with its name.
C35_AnchorsAppendOnly ==
    [][/\ CountKind(d', "seg") = Processed'
       /\ CountKind(d', "pause") = PausesLogged'
       /\ Len(Anchors(d')) = Processed' + PausesLogged'
       /\ StreamOrder(Anchors(d'))
       /\ Len(Anchors(d')) >= Len(Anchors(d))
       /\ \A i \in DOMAIN Anchors(d) :
            AnchorName(Anchors(d')[i].a, Anchors(d')[i].b, Anchors(d')[i].spk)
              = AnchorName(Anchors(d)[i].a, Anchors(d)[i].b, Anchors(d)[i].spk)]_vars

\* C35 witness: three segments and two pause markers stand in two or more
\* paragraphs, one of them closed by the overlap-close marker.
C35_Witness ==
    /\ pc = "fetch"
    /\ nsegs = 3
    /\ CountKind(d, "seg") = 3
    /\ CountKind(d, "pause") = 2
    /\ Len(d) >= 5
    /\ \E i \in DOMAIN Anchors(d) : Anchors(d)[i].close

\* The first paragraph of doc is the title, the second one the notes.
TitleAndNotes(doc) ==
    /\ Len(doc) >= 2
    /\ Len(doc[1]) = 1
    /\ doc[1][1].kind = "title"
    /\ Len(doc[2]) = 1
    /\ doc[2][1].kind = "notes"

\* C36: whenever a save is under way (periodic, on cancellation or final),
\* the first paragraph of the document is the title and the second one the
\* notes, so a caption text starts with these two; and the loop leaves the
\* two alone and adds its paragraphs after them.
C36_HeaderBeforeSave ==
    [][/\ Saving' =>
            /\ TitleAndNotes(d')
            /\ sv'.text.fmt = "vtt" =>
                  /\ sv'.text.body[1] = << d'[1] >>
                  /\ sv'.text.body[2] = << d'[2] >>
       /\ pc \notin { "construct" } =>
            /\ Len(d') >= Len(d)
            /\ \A i \in 1 .. 2 : i <= Len(d) => d'[i] = d[i]]_vars

\* C36 witness: a caption file is being written by a save on cancellation
\* after an earlier periodic save, the document holding paragraphs of the loop.
C36_Witness ==
    /\ pc = "save_write"
    /\ sv.kind = "cancel"
    /\ sv.text.fmt = "vtt"
    /\ Len(d) >= 4
    /\ TitleAndNotes(d)
    /\ \E i \in DOMAIN hist.saves : hist.saves[i].kind = "periodic"

\* The completion signal has been logged.
CompletionLogged == \E i \in DOMAIN log : log[i] = Completion

\* C37: a run in which the cancellation flag was set before completion, and
\* in which nothing else failed, ends with the cancellation outcome and
\* without the completion signal, also when the flag was set while the last
\* segment was in process.
C37_CancelPreventsCompletion ==
    pc = "done" /\ cancel /\ exc \in { NoExc, "err_user_cancelation" } =>
      /\ outcome = "error"
      /\ exc = "err_user_cancelation"
      /\ ~CompletionLogged

\* C38: at normal completion the path logged as the saved transcript is the
\* path the final save wrote: the primary path after a save to the primary
\* file, the fallback path, after the rescue message, after a save that fell
\* back.
C38_ReportedPathIsWritten ==
    outcome = "finished" =>
      LET final == hist.saves[Len(hist.saves)]
      IN  /\ final.kind = "final"
          /\ final.result = "ok"
          /\ log[Len(log)].msg = "my_transcript_file"
          /\ log[Len(log)].link = final.target
          /\ final.target = "fallback" => log[Len(log) - 1].msg = "rescue_saving"

\* The save that ends in this step, if one does.
SaveEnds == Len(hist'.saves) = Len(hist.saves) + 1

Ended == hist'.saves[Len(hist'.saves)]

\* C39: save renders the text before it opens a file and sets last_save
\* after the completed write.  A save in which the rendering raises leaves
\* both files and last_save as they were; a save in which anything raises
\* leaves last_save as it was; and a file is only opened for a save that
\* holds the rendering of the document.
C39_RenderThenOpenThenStamp ==
    [][/\ SaveEnds /\ Ended.result = "parse_failed" =>
            /\ fs' = fs
            /\ Ended.fs1 = Ended.fs0
            /\ Ended.target = "none"
            /\ last_save' = last_save
       /\ SaveEnds /\ Ended.result # "ok" => last_save' = last_save
       /\ SaveEnds /\ Ended.result = "ok" =>
            /\ last_save' = now
            /\ fs'[Ended.target] = File("complete", Parse(cfg.file_ext, d))
       /\ pc = "save_open" /\ fs' # fs => sv'.text = Parse(cfg.file_ext, d)]_vars

\* C39 witness: after a completed periodic save a later save raised in the
\* rendering; the file still holds the text of the earlier save and
\* last_save its time.
C39_Witness ==
    /\ pc = "done"
    /\ Len(hist.saves) = 2
    /\ hist.saves[1].kind = "periodic"
    /\ hist.saves[1].result = "ok"
    /\ hist.saves[2].result = "parse_failed"
    /\ fs = hist.saves[1].fs1
    /\ fs.primary = File("complete", hist.saves[1].text)
    /\ last_save < now
    /\ last_save > 0

====
